---------------------------- MODULE Spec2Model ----------------------------
(***************************************************************************)
(* A model of MandalaMind/server/services/gemini.ts (class GeminiService). *)
(*                                                                         *)
(*  - Text that the code inspects character by character (the image        *)
(*    prompt, the voice transcript) is a sequence of one-character         *)
(*    strings; CharCodeAt gives the UTF-16 code unit of a character.       *)
(*  - JavaScript numbers that can leave the range of a 32-bit integer are  *)
(*    kept exactly as a pair [hi, lo] with value hi * 65536 + lo and       *)
(*    0 <= lo < 65536 (all values in the code stay far below 2^53, where   *)
(*    a double is exact).                                                  *)
(***************************************************************************)
EXTENDS Integers, Sequences, FiniteSets, TLC

VARIABLES
    now,         \* the reading Date.now() returns
    dirExists,   \* whether the directory attached_assets exists
    files,       \* the files of attached_assets, by the timestamp in their name
    req,         \* the requests in flight: generateMandalaPrompt / generateMandalaImage
    seedCall,    \* a caller of createSeedFromInput: its input and the seeds returned
    gen,         \* the closures made by createSeededRandom: currentSeed and the draws
    styleCall,   \* a caller of determineMandalaStyle: its input and the tag returned
    themeCall,   \* a caller of extractThemesFromVoice: its input and the flags returned
    descCall,    \* the descriptors both paths select for one biometric sample
    svgRun       \* the runs of createSVGMandala: input, calls made, generator, markup

orchVars == <<now, dirExists, files, req>>
callVars == <<themeCall, descCall, svgRun>>
pureVars == <<seedCall, gen, styleCall, themeCall, descCall, svgRun>>
vars == <<now, dirExists, files, req, seedCall, gen, styleCall, themeCall, descCall, svgRun>>

---------------------------------------------------------------------------
(* Bounds of the model *)

MaxWords == 2          \* a generated prompt is at most this many vocabulary words
NumSeedCalls == 2      \* calls of createSeedFromInput made on one input
MaxSeed == 40          \* the seeds 0..MaxSeed are tried besides the boundary seeds
MaxDraws == 3          \* draws taken from one generator
NumGenerators == 2     \* generators made from the same seed
MaxNow == 1            \* Date.now() takes the readings 0..MaxNow
MaxParts == 1          \* content parts in one remote image response

---------------------------------------------------------------------------
(* Text *)

Printable ==
  <<
     " ", "!", "\"", "#", "$", "%", "&", "'", "(", ")", "*", "+", ",", "-", ".", "/",
     "0", "1", "2", "3", "4", "5", "6", "7", "8", "9", ":", ";", "<", "=", ">", "?",
     "@", "A", "B", "C", "D", "E", "F", "G", "H", "I", "J", "K", "L", "M", "N", "O",
     "P", "Q", "R", "S", "T", "U", "V", "W", "X", "Y", "Z", "[", "\\", "]", "^", "_",
     "grave", "a", "b", "c", "d", "e", "f", "g", "h", "i", "j", "k", "l", "m", "n", "o",
     "p", "q", "r", "s", "t", "u", "v", "w", "x", "y", "z", "{", "|", "}", "~"
  >>

\* String.prototype.charCodeAt for one character (ASCII 32..126; the entry
\* "grave" stands for the grave accent, code 96, which a TLA+ string cannot hold)
CharCodeAt(c) == 31 + (CHOOSE k \in 1..Len(Printable) : Printable[k] = c)

FromCharCode(n) == Printable[n - 31]

\* String.prototype.toLowerCase
ToLowerCase(s) ==
    [k \in 1..Len(s) |->
        LET n == CharCodeAt(s[k])
        IN  IF n >= 65 /\ n <= 90 THEN FromCharCode(n + 32) ELSE s[k]]

\* String.prototype.includes
Includes(s, t) ==
    \E k \in 0..(Len(s) - Len(t)) : SubSeq(s, k + 1, k + Len(t)) = t

\* the template literal ${n} of a non-negative integer: its decimal digits
RECURSIVE NumberToString(_)
NumberToString(n) ==
    IF n < 10 THEN <<FromCharCode(48 + n)>>
    ELSE NumberToString(n \div 10) \o <<FromCharCode(48 + (n % 10))>>

kw_dot == <<"d", "o", "t">>
kw_aboriginal == <<"a", "b", "o", "r", "i", "g", "i", "n", "a", "l">>
kw_geometric == <<"g", "e", "o", "m", "e", "t", "r", "i", "c">>
kw_sacred == <<"s", "a", "c", "r", "e", "d">>
kw_flower == <<"f", "l", "o", "w", "e", "r">>
kw_petal == <<"p", "e", "t", "a", "l">>
kw_vibrant == <<"v", "i", "b", "r", "a", "n", "t">>
kw_bright == <<"b", "r", "i", "g", "h", "t">>

---------------------------------------------------------------------------
(* Inputs *)

ExampleSacredDot ==
    <<"a", " ", "s", "a", "c", "r", "e", "d", " ", "d", "o", "t", " ",
      "p", "a", "i", "n", "t", "i", "n", "g">>

\* a text whose accumulator ends at -2^31
ExampleMinHash == <<"G", "y", "d", "Z", "G", "_">>

Vocabulary ==
    { kw_dot, kw_aboriginal, kw_geometric, kw_sacred, kw_flower, kw_petal,
      kw_bright, <<"D", "O", "T">>, <<"S", "a", "c", "r", "e", "d">>,
      <<"P", "E", "T", "A", "L">>, <<"d", "o">>, <<"t">>, <<" ">>, <<"a">>,
      <<"z", "z">> }

RECURSIVE WordsUpTo(_)
WordsUpTo(n) ==
    IF n = 0 THEN { <<>> }
    ELSE LET shorter == WordsUpTo(n - 1)
         IN  shorter \cup { s \o w : s \in shorter, w \in Vocabulary }

Prompts == WordsUpTo(MaxWords) \cup { ExampleSacredDot, ExampleMinHash }

NoBiometrics == [present |-> FALSE]

Biometrics(a, m, q) ==
    [present |-> TRUE, attention |-> a, meditation |-> m, signalQuality |-> q]

BiometricSamples ==
    { Biometrics(0, 0, 0), Biometrics(71, 29, 49), Biometrics(100, 100, 100) }

---------------------------------------------------------------------------
(* Exact integers beyond 32 bits: [hi, lo] stands for hi * 65536 + lo *)

Wide(h, x) == [hi |-> h + (x \div 65536), lo |-> x % 65536]

WZero == [hi |-> 0, lo |-> 0]

WNeg(w) == Wide(-w.hi, -w.lo)

WSub(a, b) == Wide(a.hi - b.hi, a.lo - b.lo)

WIsNeg(w) == w.hi < 0

WLeq(a, b) == a.hi < b.hi \/ (a.hi = b.hi /\ a.lo <= b.lo)

\* the value as a plain integer, for the values that fit
WToInt(w) == w.hi * 65536 + w.lo

\* ToInt32: reduce modulo 2^32 into -2^31 .. 2^31 - 1
ToInt32(w) == [hi |-> ((w.hi + 32768) % 65536) - 32768, lo |-> w.lo]

\* x << n on a 32-bit integer: multiply by 2^n and wrap to 32 bits
ShiftLeft(w, n) == ToInt32(Wide(w.hi * (2 ^ n), w.lo * (2 ^ n)))

\* x & x: the operand converted to a 32-bit integer
BitAndSelf(w) == ToInt32(w)

\* Math.abs
MathAbs(w) == IF WIsNeg(w) THEN WNeg(w) ELSE w

TwoTo31 == [hi |-> 32768, lo |-> 0]

---------------------------------------------------------------------------
(* createSeedFromInput *)

SeedString(prompt, brainwaveData) ==
    prompt \o
    (IF brainwaveData.present
        THEN NumberToString(brainwaveData.attention)
             \o NumberToString(brainwaveData.meditation)
             \o NumberToString(brainwaveData.signalQuality)
        ELSE <<>>)

\* one iteration of the loop: hash = ((hash << 5) - hash) + char; hash = hash & hash
HashStep(hash, char) ==
    LET shifted == ShiftLeft(hash, 5)
        diff == WSub(shifted, hash)
        sum == Wide(diff.hi, diff.lo + char)
    IN  BitAndSelf(sum)

\* the loop from index i on (the test on next only makes TLC compute the
\* accumulator at every iteration rather than at the end)
RECURSIVE HashLoop(_, _, _)
HashLoop(str, i, hash) ==
    IF i < Len(str)
        THEN LET next == HashStep(hash, CharCodeAt(str[i + 1]))
             IN  IF next.lo >= 0 THEN HashLoop(str, i + 1, next) ELSE next
        ELSE hash

SeedReturnNoAbs(hash) == hash

SeedReturn(hash) == MathAbs(hash)

createSeedFromInput(prompt, brainwaveData) ==
    SeedReturn(HashLoop(SeedString(prompt, brainwaveData), 0, WZero))

---------------------------------------------------------------------------
(* createSeededRandom *)

LcgMultiplier == 9301
LcgIncrement == 49297
LcgModulus == 233280

\* a % m as JavaScript computes it: the result has the sign of a
JsRemainder(w, m) ==
    LET a == MathAbs(w)
        r == ((((a.hi % m) * 256) % m) * 256 + a.lo) % m
    IN  IF WIsNeg(w) THEN -r ELSE r

NextSeedNoIncrement(currentSeed) ==
    JsRemainder(Wide(currentSeed.hi * LcgMultiplier,
                     currentSeed.lo * LcgMultiplier), LcgModulus)

\* currentSeed = (currentSeed * 9301 + 49297) % 233280
NextSeed(currentSeed) ==
    JsRemainder(Wide(currentSeed.hi * LcgMultiplier,
                     currentSeed.lo * LcgMultiplier + LcgIncrement), LcgModulus)

\* return currentSeed / 233280, kept as a fraction
DrawValue(state) == [num |-> state, den |-> LcgModulus]

createSeededRandom(seed) == [currentSeed |-> seed, draws |-> <<>>]

\* one call of the closure
CallSeededRandom(g) ==
    LET s == NextSeed(g.currentSeed)
    IN  [currentSeed |-> Wide(0, s), draws |-> Append(g.draws, DrawValue(s))]

---------------------------------------------------------------------------
(* determineMandalaStyle *)

determineMandalaStyleSacredFirst(prompt) ==
    LET lowerPrompt == ToLowerCase(prompt)
    IN  IF Includes(lowerPrompt, kw_geometric) \/ Includes(lowerPrompt, kw_sacred)
            THEN "sacred"
        ELSE IF Includes(lowerPrompt, kw_dot) \/ Includes(lowerPrompt, kw_aboriginal)
            THEN "dotpainting"
        ELSE IF Includes(lowerPrompt, kw_flower) \/ Includes(lowerPrompt, kw_petal)
            THEN "floral"
        ELSE "geometric"

determineMandalaStyle(prompt) ==
    LET lowerPrompt == ToLowerCase(prompt)
    IN  IF Includes(lowerPrompt, kw_dot) \/ Includes(lowerPrompt, kw_aboriginal)
            THEN "dotpainting"
        ELSE IF Includes(lowerPrompt, kw_geometric) \/ Includes(lowerPrompt, kw_sacred)
            THEN "sacred"
        ELSE IF Includes(lowerPrompt, kw_flower) \/ Includes(lowerPrompt, kw_petal)
            THEN "floral"
        ELSE "geometric"

---------------------------------------------------------------------------
(* extractThemesFromVoice *)

PeaceWords ==
    << <<"p", "e", "a", "c", "e">>,
       <<"c", "a", "l", "m">>,
       <<"s", "e", "r", "e", "n", "e">>,
       <<"t", "r", "a", "n", "q", "u", "i", "l">>,
       <<"q", "u", "i", "e", "t">>,
       <<"s", "t", "i", "l", "l">>,
       <<"h", "a", "r", "m", "o", "n", "y">>,
       <<"b", "a", "l", "a", "n", "c", "e">> >>

LoveWords ==
    << <<"l", "o", "v", "e">>,
       <<"h", "e", "a", "r", "t">>,
       <<"c", "o", "m", "p", "a", "s", "s", "i", "o", "n">>,
       <<"k", "i", "n", "d", "n", "e", "s", "s">>,
       <<"c", "a", "r", "e">>,
       <<"a", "f", "f", "e", "c", "t", "i", "o", "n">>,
       <<"w", "a", "r", "m", "t", "h">> >>

StrengthWords ==
    << <<"s", "t", "r", "e", "n", "g", "t", "h">>,
       <<"s", "t", "r", "o", "n", "g">>,
       <<"p", "o", "w", "e", "r">>,
       <<"c", "o", "u", "r", "a", "g", "e">>,
       <<"c", "o", "n", "f", "i", "d", "e", "n", "t">>,
       <<"b", "r", "a", "v", "e">>,
       <<"d", "e", "t", "e", "r", "m", "i", "n", "e", "d">> >>

GrowthWords ==
    << <<"g", "r", "o", "w">>,
       <<"c", "h", "a", "n", "g", "e">>,
       <<"t", "r", "a", "n", "s", "f", "o", "r", "m">>,
       <<"e", "v", "o", "l", "v", "e">>,
       <<"p", "r", "o", "g", "r", "e", "s", "s">>,
       <<"d", "e", "v", "e", "l", "o", "p">>,
       <<"j", "o", "u", "r", "n", "e", "y">>,
       <<"p", "a", "t", "h">> >>

GratitudeWords ==
    << <<"g", "r", "a", "t", "e", "f", "u", "l">>,
       <<"t", "h", "a", "n", "k">>,
       <<"a", "p", "p", "r", "e", "c", "i", "a", "t", "i", "o", "n">>,
       <<"b", "l", "e", "s", "s", "e", "d">>,
       <<"f", "o", "r", "t", "u", "n", "a", "t", "e">>,
       <<"a", "b", "u", "n", "d", "a", "n", "c", "e">> >>

\* \w of a regular expression: [A-Za-z0-9_]
IsWordChar(c) ==
    LET n == CharCodeAt(c)
    IN  (n >= 48 /\ n <= 57) \/ (n >= 65 /\ n <= 90) \/ (n >= 97 /\ n <= 122) \/ n = 95

\* /\b(w1|w2|...)\b/.test(s): some alternative occurs with a word boundary on
\* both sides (every alternative begins and ends with a word character)
RegexTestWords(words, s) ==
    \E a \in 1..Len(words) :
        LET w == words[a]
        IN  \E k \in 0..(Len(s) - Len(w)) :
                /\ SubSeq(s, k + 1, k + Len(w)) = w
                /\ (k = 0 \/ ~IsWordChar(s[k]))
                /\ (k + Len(w) = Len(s) \/ ~IsWordChar(s[k + Len(w) + 1]))

NoThemes ==
    [peace |-> FALSE, love |-> FALSE, strength |-> FALSE, growth |-> FALSE,
     gratitude |-> FALSE]

\* a transcript that was not passed (undefined)
AbsentText == <<"undefined">>

extractThemesFromVoiceSubstring(voiceTranscript) ==
    IF voiceTranscript = AbsentText \/ Len(voiceTranscript) = 0 THEN NoThemes
    ELSE LET lower == ToLowerCase(voiceTranscript)
             some(words) == \E a \in 1..Len(words) : Includes(lower, words[a])
         IN  [peace |-> some(PeaceWords), love |-> some(LoveWords),
              strength |-> some(StrengthWords), growth |-> some(GrowthWords),
              gratitude |-> some(GratitudeWords)]

\* if (!voiceTranscript) return all false; otherwise the five regex tests
extractThemesFromVoice(voiceTranscript) ==
    IF voiceTranscript = AbsentText \/ Len(voiceTranscript) = 0 THEN NoThemes
    ELSE LET lower == ToLowerCase(voiceTranscript)
         IN  [peace |-> RegexTestWords(PeaceWords, lower),
              love |-> RegexTestWords(LoveWords, lower),
              strength |-> RegexTestWords(StrengthWords, lower),
              growth |-> RegexTestWords(GrowthWords, lower),
              gratitude |-> RegexTestWords(GratitudeWords, lower)]

---------------------------------------------------------------------------
(* getFallbackPrompt *)

Undefined == "undefined"

colorPalettes ==
    [warm |-> "warm sunset palette: deep oranges (#ff8c00), rich reds (#dc143c), golden yellows (#ffd700), and bronze dots (#cd7f32) against a deep amber background (#ff8c00 to #8b4513 gradient)",
     cool |-> "cool celestial palette: deep midnight blues (#191970), purples (#663399), teals (#008b8b), and silver-white dots (#f5f5dc) against a cosmic blue background (#000080 to #191970 gradient)",
     vibrant |-> "vibrant cosmic palette: electric blues (#0066ff), luminous whites (#ffffff), light blues (#87ceeb), turquoise accents (#40e0d0), and gold highlights (#ffd700) against a deep space blue background (#000051 to #1a237e gradient)",
     monochrome |-> "sophisticated monochrome palette: pure whites (#ffffff), light grays (#d3d3d3), medium grays (#808080), and charcoal (#36454f) against a deep black background (#000000 to #1c1c1c gradient)"]

styleEnhancements ==
    [traditional |-> "with classical mandala elements, traditional Buddhist and Hindu symbolism, and time-honored sacred geometry",
     modern |-> "with contemporary geometric interpretations, sleek minimalist elements, and innovative pattern combinations",
     abstract |-> "with experimental dot arrangements, unconventional symmetries, and artistic expression that breaks traditional boundaries",
     spiritual |-> "with deep sacred symbolism, chakra representations, and mystical elements that connect to universal consciousness"]

FallbackAttentionText(attention) ==
    IF attention > 70
        THEN "Ultra-precise geometric dot patterns with crystalline clarity, sharp angular formations, and highly detailed symmetrical structures. Each dot perfectly placed for maximum focus and concentration energy. "
    ELSE IF attention < 30
        THEN "Soft, organic dot patterns with flowing transitions, gentle curves, and dreamy ethereal formations. Dots create flowing energy like water or clouds. "
    ELSE "Balanced dot patterns with harmonious geometric structures, moderate complexity, and stable radial symmetry. Perfect equilibrium between order and flow. "

FallbackMeditationText(meditation) ==
    IF meditation > 70
        THEN "Deep, peaceful dot gradients creating waves of tranquility, with gentle spirals and calming circular patterns that radiate serene energy from the center outward. "
    ELSE IF meditation < 30
        THEN "Dynamic, energetic dot work with vibrant spiral patterns, active radiating lines, and pulsing geometric forms that express vitality and movement. "
    ELSE "Centered, grounded dot patterns with stable circular formations and balanced energy distribution throughout the design. "

FallbackThemeText(voiceTranscript, themes) ==
    IF Len(voiceTranscript) > 5
        THEN LET lowerTranscript == ToLowerCase(voiceTranscript)
                 has(w) == Includes(lowerTranscript, w)
             IN  (IF themes.peace \/ has(PeaceWords[1]) \/ has(PeaceWords[2])
                     THEN "Incorporate symbols of inner peace: dove motifs, olive branches, and gentle wave patterns flowing through the dot work. "
                     ELSE "")
                 \o (IF themes.love \/ has(LoveWords[1]) \/ has(LoveWords[2])
                     THEN "Include heart-centered symbolism: lotus flowers blooming from the center, infinity symbols, and radiating rays of compassion. "
                     ELSE "")
                 \o (IF themes.strength \/ has(StrengthWords[1]) \/ has(StrengthWords[3])
                     THEN "Add symbols of inner strength: mountain-like triangular patterns, shield formations, and bold radiating lines of empowerment. "
                     ELSE "")
                 \o (IF themes.growth \/ has(<<"g", "r", "o", "w", "t", "h">>) \/ has(GrowthWords[2])
                     THEN "Express transformation: spiral patterns, tree-like branching formations, and evolving geometric patterns that grow in complexity. "
                     ELSE "")
                 \o (IF themes.gratitude \/ has(GratitudeWords[1]) \/ has(GratitudeWords[2])
                     THEN "Embody gratitude: sun-like radiating patterns, flowering motifs, and warm embracing circles that express appreciation. "
                     ELSE "")
        ELSE ""

getFallbackPrompt(options) ==
    LET themes == extractThemesFromVoice(options.voiceTranscript)
        palette == IF options.colorPalette = Undefined THEN "vibrant" ELSE options.colorPalette
        style == IF options.style = Undefined THEN "spiritual" ELSE options.style
    IN  "Create an exquisite traditional dot painting mandala masterpiece with concentric circles of luminous dots in varying sizes. "
        \o FallbackAttentionText(options.brainwaveData.attention)
        \o FallbackMeditationText(options.brainwaveData.meditation)
        \o "Color scheme: " \o colorPalettes[palette] \o ". "
        \o FallbackThemeText(options.voiceTranscript, themes)
        \o "Design aesthetic: " \o styleEnhancements[style] \o ". "
        \o "Multiple layers of intricate dot work radiating from a powerful center motif outward through concentric rings of increasing complexity. "
        \o "Perfect circular composition with museum-quality artistic detail, spiritual depth, and breathtaking beauty that inspires meditation and inner reflection. "
        \o "Each dot placed with intention to create optical harmony and luminous effects that seem to glow with inner light."

---------------------------------------------------------------------------
(* generateMandalaImage: the descriptors placed in the enhanced prompt *)

ImageComplexityLevelInclusive(brainwaveData) ==
    IF ~brainwaveData.present THEN "intricate and detailed"
    ELSE IF brainwaveData.attention >= 70
        THEN "highly intricate and precisely detailed with sharp geometric precision"
    ELSE IF brainwaveData.attention <= 30
        THEN "flowing and organic with soft, dreamy details"
    ELSE "balanced complexity with harmonious details"

ImageComplexityLevel(brainwaveData) ==
    IF ~brainwaveData.present THEN "intricate and detailed"
    ELSE IF brainwaveData.attention > 70
        THEN "highly intricate and precisely detailed with sharp geometric precision"
    ELSE IF brainwaveData.attention < 30
        THEN "flowing and organic with soft, dreamy details"
    ELSE "balanced complexity with harmonious details"

ImageColorIntensity(brainwaveData) ==
    IF ~brainwaveData.present THEN "vibrant and luminous colors"
    ELSE IF brainwaveData.meditation > 70
        THEN "deep, calming colors with gentle gradients and peaceful luminescence"
    ELSE IF brainwaveData.meditation < 30
        THEN "vibrant, dynamic colors with energetic contrasts and bright highlights"
    ELSE "balanced color palette with moderate intensity and natural harmony"

ImageStyleModifiers(brainwaveData) ==
    IF ~brainwaveData.present THEN "balanced energy and harmonious design, "
    ELSE (IF brainwaveData.attention > 70
             THEN "focused energy patterns with crystalline clarity, "
          ELSE IF brainwaveData.attention < 30
             THEN "gentle, flowing energy with soft focus, "
          ELSE "centered and stable energy patterns, ")
         \o (IF brainwaveData.meditation > 70
                THEN "serene and tranquil atmosphere with smooth color transitions, "
             ELSE IF brainwaveData.meditation < 30
                THEN "active and energetic atmosphere with bold color contrasts, "
             ELSE "harmonious and balanced energy, ")
         \o (IF brainwaveData.signalQuality < 50
                THEN "with subtle ethereal effects and mystical atmosphere, "
                ELSE "")

\* the template of enhancedPrompt, by the values it interpolates
EnhancedPrompt(prompt, brainwaveData) ==
    [intro |-> "Create an exquisite traditional dot painting mandala masterpiece: ",
     prompt |-> prompt,
     complexityLevel |-> ImageComplexityLevel(brainwaveData),
     colorIntensity |-> ImageColorIntensity(brainwaveData),
     styleModifiers |-> ImageStyleModifiers(brainwaveData)]

---------------------------------------------------------------------------
(* createSVGMandala and the fallback artifact *)

extractColorsFromPrompt(prompt) ==
    LET lowerPrompt == ToLowerCase(prompt)
    IN  IF Includes(lowerPrompt, kw_vibrant) \/ Includes(lowerPrompt, kw_bright)
            THEN [center |-> "#ffffff", outer |-> "#9c27b0", dots |-> "#e91e63",
                  accent |-> "#ff9800", secondary |-> "#4caf50", tertiary |-> "#2196f3",
                  gradient |-> <<"#e91e63", "#9c27b0", "#673ab7", "#3f51b5", "#2196f3",
                                 "#00bcd4", "#009688", "#4caf50", "#8bc34a", "#cddc39",
                                 "#ffeb3b", "#ffc107", "#ff9800">>]
            ELSE [center |-> "#ffffff", outer |-> "#1a237e", dots |-> "#e3f2fd",
                  accent |-> "#3949ab", secondary |-> "#26c6da", tertiary |-> "#42a5f5",
                  gradient |-> <<"#e3f2fd", "#bbdefb", "#90caf9", "#64b5f6", "#42a5f5",
                                 "#2196f3", "#1976d2", "#1565c0">>]

addColorVariation(colors, seededRandom) == colors

generateGradients(colors, style, seededRandom) ==
    [id |-> "bgGradient", stops |-> <<colors.center, colors.outer>>]

generatePatterns(colors, seededRandom) ==
    [id |-> "dots", fill |-> colors.dots]

generateOuterRing(colors, style, seededRandom) ==
    LET petalCount == 12
    IN  [k \in 1..petalCount |->
            [rotate |-> [num |-> 360 * (k - 1), den |-> petalCount],
             fills |-> <<colors.accent, colors.dots>>]]

generateMiddleRings(colors, style, seededRandom) ==
    <<[r |-> 120, stroke |-> colors.accent], [r |-> 80, stroke |-> colors.secondary]>>

generateInnerPatterns(colors, style, seededRandom) ==
    <<[r |-> 60, stroke |-> colors.tertiary], [r |-> 40, stroke |-> colors.dots]>>

generateDetailedPetals(colors, style, seededRandom) ==
    LET count == 8
    IN  [k \in 1..count |->
            [rotate |-> [num |-> 360 * (k - 1), den |-> count],
             fills |-> <<colors.accent>>]]

generateSacredGeometry(colors, style, seededRandom) ==
    <<[r |-> 30, stroke |-> colors.dots]>>

generateDotPatternsRoundUp(colors, style, seededRandom) ==
    LET rings == <<20, 35, 50>>
    IN  [n \in 1..Len(rings) |->
            LET radius == rings[n]
                dotCount == (radius + 1) \div 2
            IN  [k \in 1..dotCount |->
                    [angle |-> [num |-> 360 * (k - 1), den |-> dotCount],
                     radius |-> radius, fill |-> colors.dots]]]

generateDotPatterns(colors, style, seededRandom) ==
    LET rings == <<20, 35, 50>>
    IN  [n \in 1..Len(rings) |->
            LET radius == rings[n]
                dotCount == radius \div 2
            IN  [k \in 1..dotCount |->
                    [angle |-> [num |-> 360 * (k - 1), den |-> dotCount],
                     radius |-> radius, fill |-> colors.dots]]]

generateCenterMotif(colors, style, seededRandom) ==
    <<[r |-> 15, fill |-> colors.center], [r |-> 10, fill |-> colors.accent],
      [r |-> 5, fill |-> colors.dots]>>

ComposeCallsPetalsFirst ==
    <<"createSeedFromInput", "createSeededRandom", "extractColorsFromPrompt",
      "determineMandalaStyle", "addColorVariation", "generateGradients",
      "generatePatterns", "generateFilters", "generateDetailedPetals",
      "generateMiddleRings", "generateInnerPatterns", "generateOuterRing",
      "generateSacredGeometry", "generateDotPatterns", "generateCenterMotif",
      "generateOuterRing", "generateDetailedPetals">>

\* the methods createSVGMandala calls, in the order lines 399-433 call them
\* (the interpolations of a template literal are evaluated left to right)
ComposeCalls ==
    <<"createSeedFromInput", "createSeededRandom", "extractColorsFromPrompt",
      "determineMandalaStyle", "addColorVariation", "generateGradients",
      "generatePatterns", "generateFilters", "generateOuterRing",
      "generateMiddleRings", "generateInnerPatterns", "generateDetailedPetals",
      "generateSacredGeometry", "generateDotPatterns", "generateCenterMotif",
      "generateOuterRing", "generateDetailedPetals">>

RandomCallsInVariation(method) == IF method = "addColorVariation" THEN 1 ELSE 0

\* how often the body of a method calls seededRandom(): no body does
RandomCallsIn(method) == 0

\* the generator after `n` calls of seededRandom()
RECURSIVE DrawTimes(_, _)
DrawTimes(g, n) == IF n = 0 THEN g ELSE DrawTimes(CallSeededRandom(g), n - 1)

\* the generator after the calls ComposeCalls[k..] that receive it
RECURSIVE GeneratorAfter(_, _)
GeneratorAfter(g, k) ==
    IF k > Len(ComposeCalls) THEN g
    ELSE GeneratorAfter(DrawTimes(g, RandomCallsIn(ComposeCalls[k])), k + 1)

\* the markup returned, by its parts in document order, and the generator as
\* the composition leaves it
ComposeSVG(prompt, brainwaveData) ==
    LET seed == createSeedFromInput(prompt, brainwaveData)
        seededRandom == createSeededRandom(seed)
        colors == extractColorsFromPrompt(prompt)
        mandalaStyle == determineMandalaStyle(prompt)
        variantColors == addColorVariation(colors, seededRandom)
    IN  [markup |->
         [defs |-> <<generateGradients(variantColors, mandalaStyle, seededRandom),
                    generatePatterns(variantColors, seededRandom)>>,
         layers |-> <<generateOuterRing(variantColors, mandalaStyle, seededRandom),
                      generateMiddleRings(variantColors, mandalaStyle, seededRandom),
                      generateInnerPatterns(variantColors, mandalaStyle, seededRandom),
                      generateDetailedPetals(variantColors, mandalaStyle, seededRandom),
                      generateSacredGeometry(variantColors, mandalaStyle, seededRandom),
                      generateDotPatterns(variantColors, mandalaStyle, seededRandom),
                      generateCenterMotif(variantColors, mandalaStyle, seededRandom)>>,
         enhancement |-> <<generateOuterRing(variantColors, mandalaStyle, seededRandom),
                           generateDetailedPetals(variantColors, mandalaStyle, seededRandom)>>,
         overlay |-> <<variantColors.dots, variantColors.accent>>],
         seededRandom |-> seededRandom]

createSVGMandala(prompt, brainwaveData) == ComposeSVG(prompt, brainwaveData).markup

\* Buffer.from(text).toString('base64')
ToBase64(text) == [base64 |-> text]

\* Buffer.from(data, "base64")
FromBase64(data) == data.base64

DataUrlPrefix == "data:image/svg+xml;base64,"

generateFallbackMandala(prompt, brainwaveData) ==
    LET svgMandala == createSVGMandala(prompt, brainwaveData)
    IN  [imageUrl |-> <<DataUrlPrefix, ToBase64(svgMandala)>>,
         prompt |-> prompt,
         revisedPrompt |-> <<"Fallback mandala generated locally with unique variations: ",
                             prompt>>]

---------------------------------------------------------------------------
(* The requests, the remote collaborators and the file system *)

Requests == {"r1", "r2"}

PromptAttempts == 3
ImageAttempts == 2
ImageRetryDelay == 2000

ExampleLovePeace ==
    <<"I", " ", "f", "e", "e", "l", " ", "s", "o", " ", "m", "u", "c", "h", " ",
      "l", "o", "v", "e", " ", "a", "n", "d", " ", "p", "e", "a", "c", "e">>

ImageInputs ==
    { [prompt |-> kw_dot, brainwaveData |-> NoBiometrics],
      [prompt |-> kw_bright, brainwaveData |-> Biometrics(71, 29, 49)] }

PromptOptions ==
    { [voiceTranscript |-> <<>>, brainwaveData |-> Biometrics(0, 0, 0),
       style |-> Undefined, colorPalette |-> Undefined],
      [voiceTranscript |-> ExampleLovePeace, brainwaveData |-> Biometrics(71, 29, 49),
       style |-> "modern", colorPalette |-> "warm"] }

\* the local results are functions of the request's input alone; they are
\* tabulated over the inputs the requests draw from
FallbackMandalaOf ==
    [i \in ImageInputs |-> generateFallbackMandala(i.prompt, i.brainwaveData)]

FallbackPromptOf == [o \in PromptOptions |-> getFallbackPrompt(o)]

EnhancedPromptOf == [i \in ImageInputs |-> EnhancedPrompt(i.prompt, i.brainwaveData)]

NoInput == [none |-> TRUE]
NoResult == [none |-> TRUE]
NoFile == [exists |-> FALSE]
NoOutcome == [kind |-> "none"]

IdleRequest ==
    [op |-> "none", pc |-> "idle", attempt |-> 0, input |-> NoInput,
     timestamp |-> 0, outcome |-> NoOutcome, trace |-> <<>>, result |-> NoResult]

\* what one remote text call can do: throw (timeout, rate limit), or answer
\* with a response whose text is absent, is no JSON, or is a JSON document
RemotePromptText == "A radiant dot painting mandala, as written by the remote model"

ResponseTexts ==
    { [doc |-> "none"], [doc |-> "malformed"], [doc |-> "null"], [doc |-> "scalar"],
      [doc |-> "object", hasPrompt |-> FALSE, prompt |-> ""],
      [doc |-> "object", hasPrompt |-> TRUE, prompt |-> ""],
      [doc |-> "object", hasPrompt |-> TRUE, prompt |-> RemotePromptText] }

TextResponses ==
    { [kind |-> "throws"] } \cup { [kind |-> "response", text |-> t] : t \in ResponseTexts }

\* what one remote image call can do: throw, or answer without candidates,
\* without content parts, or with a list of parts; a part may carry text and
\* may carry inline image data
PartKinds == [text : BOOLEAN, data : BOOLEAN]

PartLists == UNION { [1..n -> PartKinds] : n \in 0..MaxParts }

ImageResponses ==
    { [kind |-> "throws"], [kind |-> "noCandidates"], [kind |-> "noContent"] }
    \cup { [kind |-> "parts", parts |-> ps] : ps \in PartLists }

RemoteRevisedText == "text part of the remote image response"

\* the inline data of part k of the response to attempt a of request r
InlineData(r, a, k) == ToBase64([req |-> r, attempt |-> a, part |-> k])

\* mandala_${timestamp}.png
Filename(timestamp) == <<"mandala_", timestamp, ".png">>

---------------------------------------------------------------------------
(* generateMandalaPrompt *)

\* JSON.parse(response.text || '{}')
JSONParse(text) ==
    IF text.doc = "malformed" THEN [threw |-> TRUE]
    ELSE IF text.doc = "none"
        THEN [threw |-> FALSE, type |-> "object", hasPrompt |-> FALSE, prompt |-> ""]
    ELSE IF text.doc = "object"
        THEN [threw |-> FALSE, type |-> "object", hasPrompt |-> text.hasPrompt,
              prompt |-> text.prompt]
    ELSE [threw |-> FALSE, type |-> text.doc, hasPrompt |-> FALSE, prompt |-> ""]

PromptTryBodyThrowOnMissing(resp, options) ==
    IF resp.kind = "throws" THEN [threw |-> TRUE]
    ELSE LET result == JSONParse(resp.text)
         IN  IF result.threw THEN [threw |-> TRUE]
             ELSE IF result.hasPrompt /\ Len(result.prompt) > 0
                 THEN [threw |-> FALSE, value |-> result.prompt, local |-> FALSE]
             ELSE [threw |-> TRUE]

\* the try block from the answer of the remote call on: what is thrown or returned
PromptTryBody(resp, options) ==
    IF resp.kind = "throws" THEN [threw |-> TRUE]
    ELSE LET result == JSONParse(resp.text)
         IN  IF result.threw THEN [threw |-> TRUE]
             ELSE IF result.type = "null" THEN [threw |-> TRUE]
             ELSE IF result.hasPrompt /\ Len(result.prompt) > 0
                 THEN [threw |-> FALSE, value |-> result.prompt, local |-> FALSE]
             ELSE [threw |-> FALSE, value |-> FallbackPromptOf[options], local |-> TRUE]

PromptRetryDelayLinear(attempt) == attempt * 1000

\* Math.pow(2, attempt) * 1000
PromptRetryDelay(attempt) == (2 ^ attempt) * 1000

PromptCallRemote(rec, attempt) ==
    [rec EXCEPT !.attempt = attempt, !.pc = "awaitRemote", !.outcome = NoOutcome,
                !.trace = Append(@, [ev |-> "remoteCall", attempt |-> attempt])]

\* lines 133-135: the loop is over
PromptFallback(rec) ==
    [rec EXCEPT !.pc = "done",
                !.trace = Append(@, [ev |-> "fallback", attempt |-> rec.attempt]),
                !.result = FallbackPromptOf[rec.input]]

PromptCatchRethrow(rec, cause) ==
    [rec EXCEPT !.pc = "raised",
                !.trace = Append(@, [ev |-> "caught", attempt |-> rec.attempt]),
                !.outcome = cause]

PromptCatchRetryAll(rec, cause) ==
    LET caught == [rec EXCEPT !.outcome = cause,
                              !.trace = Append(@, [ev |-> "caught",
                                                   attempt |-> rec.attempt])]
    IN  IF rec.attempt <= PromptAttempts
            THEN [caught EXCEPT !.pc = "sleeping",
                     !.trace = Append(@, [ev |-> "wait", attempt |-> rec.attempt,
                                          ms |-> PromptRetryDelay(rec.attempt)])]
            ELSE PromptFallback(caught)

\* the catch block, and what follows it when it does not continue
PromptCatch(rec, cause) ==
    LET caught == [rec EXCEPT !.outcome = cause,
                              !.trace = Append(@, [ev |-> "caught",
                                                   attempt |-> rec.attempt])]
    IN  IF rec.attempt < PromptAttempts
            THEN [caught EXCEPT !.pc = "sleeping",
                     !.trace = Append(@, [ev |-> "wait", attempt |-> rec.attempt,
                                          ms |-> PromptRetryDelay(rec.attempt)])]
            ELSE PromptFallback(caught)

\* line 120: return result.prompt || this.getFallbackPrompt(options)
PromptReturn(rec, out, resp) ==
    [rec EXCEPT !.pc = "done", !.outcome = resp,
                !.trace = Append(@, [ev |-> IF out.local THEN "inlineFallback" ELSE "return",
                                     attempt |-> rec.attempt]),
                !.result = out.value]

StartPrompt(r) ==
    \E options \in PromptOptions :
        /\ req[r].pc = "idle"
        /\ req' = [req EXCEPT ![r] =
                      PromptCallRemote([IdleRequest EXCEPT !.op = "prompt",
                                                           !.input = options], 1)]
        /\ UNCHANGED <<now, dirExists, files, pureVars>>

PromptRemoteReturns(r) ==
    \E resp \in TextResponses :
        /\ req[r].op = "prompt"
        /\ req[r].pc = "awaitRemote"
        /\ LET out == PromptTryBody(resp, req[r].input)
           IN  req' = [req EXCEPT ![r] =
                          IF out.threw THEN PromptCatch(req[r], resp)
                                       ELSE PromptReturn(req[r], out, resp)]
        /\ UNCHANGED <<now, dirExists, files, pureVars>>

PromptTimerFires(r) ==
    /\ req[r].op = "prompt"
    /\ req[r].pc = "sleeping"
    /\ req' = [req EXCEPT ![r] = PromptCallRemote(req[r], req[r].attempt + 1)]
    /\ UNCHANGED <<now, dirExists, files, pureVars>>

---------------------------------------------------------------------------
(* generateMandalaImage *)

ImageFallback(rec) ==
    [rec EXCEPT !.pc = "done",
                !.trace = Append(@, [ev |-> "fallback", attempt |-> rec.attempt]),
                !.result = FallbackMandalaOf[rec.input]]

ImageCatchRethrow(rec, cause) ==
    LET caught == [rec EXCEPT !.outcome = cause,
                              !.trace = Append(@, [ev |-> "caught",
                                                   attempt |-> rec.attempt])]
    IN  IF rec.attempt < ImageAttempts
            THEN [caught EXCEPT !.pc = "sleeping",
                     !.trace = Append(@, [ev |-> "wait", attempt |-> rec.attempt,
                                          ms |-> ImageRetryDelay])]
            ELSE [caught EXCEPT !.pc = "raised"]

\* the catch block, and what follows it when it does not continue
ImageCatch(rec, cause) ==
    LET caught == [rec EXCEPT !.outcome = cause,
                              !.trace = Append(@, [ev |-> "caught",
                                                   attempt |-> rec.attempt])]
    IN  IF rec.attempt < ImageAttempts
            THEN [caught EXCEPT !.pc = "sleeping",
                     !.trace = Append(@, [ev |-> "wait", attempt |-> rec.attempt,
                                          ms |-> ImageRetryDelay])]
            ELSE ImageFallback(caught)

\* lines 213-231 of attempt `attempt`: the timestamp, the directory, the remote call
ImageTryHead(r, rec, attempt, mkdirOk) ==
    LET started == [rec EXCEPT !.attempt = attempt, !.timestamp = now,
                               !.outcome = NoOutcome]
        mkdirThrows == ~dirExists /\ ~mkdirOk
    IN  /\ dirExists' = (dirExists \/ mkdirOk)
        /\ req' = [req EXCEPT ![r] =
                      IF mkdirThrows THEN ImageCatch(started, [kind |-> "mkdirFailed"])
                      ELSE [started EXCEPT !.pc = "awaitRemote",
                               !.trace = Append(@, [ev |-> "remoteCall",
                                                    attempt |-> attempt])]]

\* lines 243-256: the loop over the content parts; the write of part failAt throws
RECURSIVE PartsLoop(_, _, _, _, _, _)
PartsLoop(parts, k, st, failAt, r, attempt) ==
    IF k > Len(parts) THEN st
    ELSE IF parts[k].text
        THEN PartsLoop(parts, k + 1, [st EXCEPT !.revisedPrompt = RemoteRevisedText],
                       failAt, r, attempt)
    ELSE IF parts[k].data
        THEN IF failAt = k THEN [st EXCEPT !.threw = TRUE]
             ELSE PartsLoop(parts, k + 1,
                            [st EXCEPT !.imageGenerated = TRUE,
                                       !.file = [exists |-> TRUE,
                                                 data |-> FromBase64(InlineData(r, attempt, k))]],
                            failAt, r, attempt)
    ELSE PartsLoop(parts, k + 1, st, failAt, r, attempt)

\* lines 258-265
ImageReturn(rec, st) ==
    [rec EXCEPT !.pc = "done",
                !.outcome = [kind |-> "image"],
                !.trace = Append(@, [ev |-> "return", attempt |-> rec.attempt]),
                !.result =
                    [imageUrl |-> <<"/attached_assets/", Filename(rec.timestamp)>>,
                     prompt |-> EnhancedPromptOf[rec.input],
                     revisedPrompt |->
                        IF Len(st.revisedPrompt) > 0 THEN <<st.revisedPrompt>>
                        ELSE <<"Gemini generated mandala: ",
                               EnhancedPromptOf[rec.input]>>]]

StartImage(r) ==
    \E input \in ImageInputs, mkdirOk \in BOOLEAN :
        /\ req[r].pc = "idle"
        /\ ImageTryHead(r, [IdleRequest EXCEPT !.op = "image", !.input = input], 1, mkdirOk)
        /\ UNCHANGED <<now, files, pureVars>>

ImageRemoteReturns(r) ==
    \E resp \in ImageResponses, failAt \in 0..MaxParts :
        /\ req[r].op = "image"
        /\ req[r].pc = "awaitRemote"
        \* a write can only fail at a part that is written
        /\ IF failAt = 0 THEN TRUE
           ELSE /\ resp.kind = "parts"
                /\ failAt <= Len(resp.parts)
                /\ resp.parts[failAt].data
                /\ ~resp.parts[failAt].text
        /\ LET rec == req[r]
               st0 == [revisedPrompt |-> "", imageGenerated |-> FALSE, threw |-> FALSE,
                       file |-> files[rec.timestamp]]
               st == IF resp.kind = "parts"
                        THEN PartsLoop(resp.parts, 1, st0, failAt, r, rec.attempt)
                        ELSE st0
               cause == IF resp.kind # "parts" THEN [kind |-> resp.kind]
                        ELSE IF st.threw THEN [kind |-> "writeFailed"]
                        ELSE [kind |-> "noImageData"]
           IN  /\ files' = [files EXCEPT ![rec.timestamp] = st.file]
               /\ req' = [req EXCEPT ![r] =
                             IF resp.kind = "parts" /\ ~st.threw /\ st.imageGenerated
                                 THEN ImageReturn(rec, st)
                                 ELSE ImageCatch(rec, cause)]
        /\ UNCHANGED <<now, dirExists, pureVars>>

ImageTimerFires(r) ==
    \E mkdirOk \in BOOLEAN :
        /\ req[r].op = "image"
        /\ req[r].pc = "sleeping"
        /\ ImageTryHead(r, req[r], req[r].attempt + 1, mkdirOk)
        /\ UNCHANGED <<now, files, pureVars>>

\* time passes
Tick ==
    /\ now < MaxNow
    /\ now' = now + 1
    /\ UNCHANGED <<dirExists, files, req, pureVars>>

---------------------------------------------------------------------------
(* The callers of the pure functions *)

NoCall == [none |-> TRUE]

SeedInputs == Prompts \X ({NoBiometrics} \cup BiometricSamples)

CallCreateSeed ==
    /\ Len(seedCall.seeds) < NumSeedCalls
    /\ seedCall' = [seedCall EXCEPT !.seeds =
                       Append(@, createSeedFromInput(seedCall.prompt,
                                                     seedCall.brainwaveData))]
    /\ UNCHANGED <<orchVars, gen, styleCall, callVars>>

BoundarySeeds ==
    { TwoTo31, [hi |-> 32767, lo |-> 65535], Wide(0, LcgModulus - 1),
      Wide(0, LcgModulus), Wide(0, LcgModulus + 1), [hi |-> 1, lo |-> 0],
      createSeedFromInput(kw_dot, NoBiometrics),
      createSeedFromInput(ExampleSacredDot, Biometrics(71, 29, 49)) }

PrngSeeds == { Wide(0, n) : n \in 0..MaxSeed } \cup BoundarySeeds

CallRandom(g) ==
    /\ Len(gen.closure[g].draws) < MaxDraws
    /\ gen' = [gen EXCEPT !.closure[g] = CallSeededRandom(@)]
    /\ UNCHANGED <<orchVars, seedCall, styleCall, callVars>>

\* the two independent runs of createSVGMandala
Runs == {1, 2}

NoRuns == [i \in Runs |-> NoCall]

CallsIdle ==
    /\ themeCall = NoCall
    /\ descCall = NoCall
    /\ svgRun = NoRuns

CallDetermineStyle ==
    /\ styleCall.style = Undefined
    /\ styleCall' = [styleCall EXCEPT !.style = determineMandalaStyle(styleCall.prompt)]
    /\ UNCHANGED <<orchVars, seedCall, gen, callVars>>

\* the words the transcripts are built from
ThemeVocabulary ==
    { <<"l", "o", "v", "e">>, <<"l", "o", "v", "e", "l", "y">>, <<"P", "e", "a", "c", "e">>,
      <<"g", "r", "o", "w">>, <<"g", "r", "o", "w", "t", "h">>, <<"T", "H", "A", "N", "K">>,
      <<"s", "t", "r", "o", "n", "g">>, <<"s">>, <<" ">>, <<"-">>, <<"_">>, <<"7">>,
      <<"c", "a", "l", "m", ",", " ">>, <<"a", "n", "d", " ">> }

RECURSIVE TranscriptsUpTo(_)
TranscriptsUpTo(n) ==
    IF n = 0 THEN { <<>> }
    ELSE LET shorter == TranscriptsUpTo(n - 1)
         IN  shorter \cup { s \o w : s \in shorter, w \in ThemeVocabulary }

Transcripts == TranscriptsUpTo(MaxWords) \cup { AbsentText, ExampleLovePeace }

CallExtractThemes ==
    /\ ~themeCall.returned
    /\ themeCall' = [themeCall EXCEPT !.returned = TRUE,
                        !.themes = extractThemesFromVoice(themeCall.voiceTranscript)]
    /\ UNCHANGED <<orchVars, seedCall, gen, styleCall, descCall, svgRun>>

\* the biometric samples the descriptors are selected for
Percent == 0..100

SignalQualities == {0, 49, 50, 51, 100}

DescriptorInputs ==
    { Biometrics(a, m, q) : a \in Percent, m \in Percent, q \in SignalQualities }

\* the descriptors of lines 144-177 and the texts of lines 295-311 for one sample
CallDescriptors ==
    /\ ~descCall.returned
    /\ descCall' =
           [descCall EXCEPT
               !.returned = TRUE,
               !.complexityLevel = ImageComplexityLevel(descCall.brainwaveData),
               !.colorIntensity = ImageColorIntensity(descCall.brainwaveData),
               !.styleModifiers = ImageStyleModifiers(descCall.brainwaveData),
               !.attentionText = FallbackAttentionText(descCall.brainwaveData.attention),
               !.meditationText = FallbackMeditationText(descCall.brainwaveData.meditation)]
    /\ UNCHANGED <<orchVars, seedCall, gen, styleCall, themeCall, svgRun>>

SvgPrompts ==
    { <<>>, kw_dot, kw_bright, kw_flower, ExampleSacredDot,
      <<"V", "i", "b", "r", "a", "n", "t", " ", "p", "e", "t", "a", "l">> }

SvgInputs ==
    { [prompt |-> p, brainwaveData |-> b] :
        p \in SvgPrompts, b \in {NoBiometrics} \cup BiometricSamples }

\* one call of createSVGMandala, a synchronous method: the seed, the calls
\* made, the generator as the calls leave it, and the markup returned
CallCreateSVGMandala(i) ==
    /\ ~svgRun[i].returned
    /\ LET in == svgRun[i].input
           seed == createSeedFromInput(in.prompt, in.brainwaveData)
       IN  svgRun' = [svgRun EXCEPT ![i] =
                         [input |-> in,
                          returned |-> TRUE,
                          seed |-> seed,
                          calls |-> ComposeCalls,
                          seededRandom |-> GeneratorAfter(createSeededRandom(seed), 3),
                          markup |-> createSVGMandala(in.prompt, in.brainwaveData)]]
    /\ UNCHANGED <<orchVars, seedCall, gen, styleCall, themeCall, descCall>>

---------------------------------------------------------------------------
(* Specifications *)

OrchInit ==
    /\ now = 0
    /\ dirExists = FALSE
    /\ files = [t \in 0..MaxNow |-> NoFile]
    /\ req = [r \in Requests |-> IdleRequest]

OrchIdle ==
    /\ now = 0
    /\ dirExists = FALSE
    /\ files = [t \in 0..MaxNow |-> NoFile]
    /\ req = [r \in Requests |-> IdleRequest]

Init ==
    /\ OrchInit
    /\ seedCall = NoCall
    /\ gen = NoCall
    /\ styleCall = NoCall
    /\ CallsIdle

Next ==
    \/ \E r \in Requests : StartPrompt(r)
    \/ \E r \in Requests : PromptRemoteReturns(r)
    \/ \E r \in Requests : PromptTimerFires(r)
    \/ \E r \in Requests : StartImage(r)
    \/ \E r \in Requests : ImageRemoteReturns(r)
    \/ \E r \in Requests : ImageTimerFires(r)
    \/ Tick

Spec == Init /\ [][Next]_vars

\* the step a started request is waiting for: its remote call returning or
\* its setTimeout firing
Resume(r) ==
    \/ PromptRemoteReturns(r)
    \/ PromptTimerFires(r)
    \/ ImageRemoteReturns(r)
    \/ ImageTimerFires(r)

Fairness == \A r \in Requests : WF_vars(Resume(r))

FairSpec == Init /\ [][Next]_vars /\ Fairness

SeedInit ==
    /\ OrchIdle
    /\ seedCall \in { [prompt |-> i[1], brainwaveData |-> i[2], seeds |-> <<>>] :
                        i \in SeedInputs }
    /\ gen = NoCall
    /\ styleCall = NoCall
    /\ CallsIdle

SeedNext == CallCreateSeed

SeedSpec == SeedInit /\ [][SeedNext]_vars

PrngInit ==
    /\ OrchIdle
    /\ seedCall = NoCall
    /\ gen \in { [seed |-> s, closure |-> [g \in 1..NumGenerators |-> createSeededRandom(s)]] :
                   s \in PrngSeeds }
    /\ styleCall = NoCall
    /\ CallsIdle

PrngNext == \E g \in 1..NumGenerators : CallRandom(g)

PrngSpec == PrngInit /\ [][PrngNext]_vars

StyleInit ==
    /\ OrchIdle
    /\ seedCall = NoCall
    /\ gen = NoCall
    /\ styleCall \in { [prompt |-> p, style |-> Undefined] : p \in Prompts }
    /\ CallsIdle

StyleNext == CallDetermineStyle

StyleSpec == StyleInit /\ [][StyleNext]_vars

ThemeInit ==
    /\ OrchIdle
    /\ seedCall = NoCall
    /\ gen = NoCall
    /\ styleCall = NoCall
    /\ themeCall \in { [voiceTranscript |-> t, returned |-> FALSE, themes |-> NoThemes] :
                         t \in Transcripts }
    /\ descCall = NoCall
    /\ svgRun = NoRuns

ThemeNext == CallExtractThemes

ThemeSpec == ThemeInit /\ [][ThemeNext]_vars

DescInit ==
    /\ OrchIdle
    /\ seedCall = NoCall
    /\ gen = NoCall
    /\ styleCall = NoCall
    /\ themeCall = NoCall
    /\ descCall \in { [brainwaveData |-> b, returned |-> FALSE, complexityLevel |-> "",
                       colorIntensity |-> "", styleModifiers |-> "", attentionText |-> "",
                       meditationText |-> ""] : b \in DescriptorInputs }
    /\ svgRun = NoRuns

DescNext == CallDescriptors

DescSpec == DescInit /\ [][DescNext]_vars

SvgInit ==
    /\ OrchIdle
    /\ seedCall = NoCall
    /\ gen = NoCall
    /\ styleCall = NoCall
    /\ themeCall = NoCall
    /\ descCall = NoCall
    /\ svgRun \in [Runs -> { [input |-> in, returned |-> FALSE, seed |-> WZero,
                              calls |-> <<>>, seededRandom |-> createSeededRandom(WZero),
                              markup |-> NoResult] : in \in SvgInputs }]

SvgNext == \E i \in Runs : CallCreateSVGMandala(i)

SvgSpec == SvgInit /\ [][SvgNext]_vars

---------------------------------------------------------------------------
(* Properties *)

EventsOf(rec, ev) == { k \in DOMAIN rec.trace : rec.trace[k].ev = ev }

CountEv(rec, ev) == Cardinality(EventsOf(rec, ev))

LastEv(rec) == rec.trace[Len(rec.trace)].ev

\* the outcomes of a remote text call by what the try block does with them
ThrowsInTry(resp) ==
    \/ resp.kind = "throws"
    \/ resp.kind = "response" /\ resp.text.doc \in {"malformed", "null"}

ParsesWithoutPrompt(resp) ==
    /\ resp.kind = "response"
    /\ \/ resp.text.doc \in {"none", "scalar"}
       \/ resp.text.doc = "object" /\ (~resp.text.hasPrompt \/ resp.text.prompt = "")

\* C1: generateMandalaImage never raises whatever the remote image calls do:
\* after every outcome the request is waiting for its retry or has returned a
\* GeneratedMandala, and when both attempts failed the artifact returned is
\* the locally composed one, whose imageUrl starts with
\* data:image/svg+xml;base64,
C1_ImageAlwaysReturnsArtifact ==
    \A r \in Requests :
        req[r].op = "image" =>
            LET rec == req[r]
            IN  /\ rec.pc \in {"awaitRemote", "sleeping", "done"}
                /\ rec.outcome.kind # "none" => rec.pc \in {"sleeping", "done"}
                /\ rec.pc = "done" =>
                       DOMAIN rec.result = {"imageUrl", "prompt", "revisedPrompt"}
                /\ (rec.pc = "done" /\ CountEv(rec, "caught") = 2) =>
                       /\ rec.result = generateFallbackMandala(rec.input.prompt,
                                                               rec.input.brainwaveData)
                       /\ rec.result.imageUrl[1] = "data:image/svg+xml;base64,"

C1_Witness ==
    \E r \in Requests :
        /\ req[r].op = "image"
        /\ req[r].pc = "done"
        /\ CountEv(req[r], "remoteCall") = 2
        /\ CountEv(req[r], "caught") = 2
        /\ req[r].outcome.kind = "noImageData"
        /\ req[r].result.imageUrl[1] = "data:image/svg+xml;base64,"

MaxCalls(rec) == IF rec.op = "prompt" THEN 3 ELSE 2

\* at most 3 (prompt) or 2 (image) remote calls, and nothing follows the event
\* that produced the result
CallsBoundedAndStopAtResult(rec) ==
    /\ CountEv(rec, "remoteCall") <= MaxCalls(rec)
    /\ \A k \in DOMAIN rec.trace :
           /\ rec.trace[k].ev = "remoteCall" => rec.trace[k].attempt <= MaxCalls(rec)
           /\ rec.trace[k].ev \in {"return", "inlineFallback", "fallback"} =>
                  /\ k = Len(rec.trace)
                  /\ rec.pc = "done"

\* the fallback that follows the loop comes right after the catch of the last
\* allowed attempt
LoopFallbackOnlyAfterLastAttempt(rec) ==
    \A k \in EventsOf(rec, "fallback") :
        /\ rec.trace[k].attempt = MaxCalls(rec)
        /\ k > 1
        /\ rec.trace[k - 1] = [ev |-> "caught", attempt |-> MaxCalls(rec)]

C3_Safety ==
    \A r \in Requests :
        req[r].op # "none" =>
            /\ CallsBoundedAndStopAtResult(req[r])
            /\ LoopFallbackOnlyAfterLastAttempt(req[r])
            /\ \A k \in EventsOf(req[r], "inlineFallback") :
                   /\ req[r].op = "prompt"
                   /\ ParsesWithoutPrompt(req[r].outcome)
                   /\ k > 1
                   /\ req[r].trace[k - 1] = [ev |-> "remoteCall",
                                             attempt |-> req[r].trace[k].attempt]

ScheduledWait(rec, k) ==
    IF rec.op = "prompt" THEN (IF k = 1 THEN 2000 ELSE 4000) ELSE 2000

\* C4: a wait happens only right after the catch of a failed attempt k that
\* is not the last, lasts 1s * 2^k (prompt: 2000, 4000) or 2s (image), and
\* is followed by attempt k + 1; every attempt after the first is preceded by
\* its wait; no wait precedes the first attempt, follows a result, or follows
\* the catch of the last attempt, which the fallback follows immediately
C4_BackoffSchedule ==
    \A r \in Requests :
        req[r].op # "none" =>
            LET rec == req[r]
                t == rec.trace
            IN  \A k \in DOMAIN t :
                    /\ t[k].ev = "wait" =>
                           /\ k > 1
                           /\ t[k - 1] = [ev |-> "caught", attempt |-> t[k].attempt]
                           /\ t[k].attempt < MaxCalls(rec)
                           /\ t[k].ms = ScheduledWait(rec, t[k].attempt)
                           /\ k < Len(t) => /\ t[k + 1].ev \in {"remoteCall", "caught"}
                                            /\ t[k + 1].attempt = t[k].attempt + 1
                    /\ (t[k].ev = "caught" /\ t[k].attempt < MaxCalls(rec)) =>
                           /\ k < Len(t)
                           /\ t[k + 1].ev = "wait"
                    /\ (t[k].ev = "caught" /\ t[k].attempt = MaxCalls(rec)) =>
                           /\ k < Len(t)
                           /\ t[k + 1].ev = "fallback"
                    /\ (t[k].ev = "remoteCall" /\ t[k].attempt > 1) =>
                           t[k - 1].ev = "wait"
                    /\ k = 1 => (t[k].ev \in {"remoteCall", "caught"} /\ t[k].attempt = 1)
                    /\ t[k].ev \in {"return", "inlineFallback", "fallback"} => k = Len(t)

C4_Witness ==
    \E r1, r2 \in Requests :
        /\ req[r1].op = "prompt" /\ req[r1].pc = "done"
        /\ Len(req[r1].trace) = 9
        /\ req[r1].trace[3] = [ev |-> "wait", attempt |-> 1, ms |-> 2000]
        /\ req[r1].trace[6] = [ev |-> "wait", attempt |-> 2, ms |-> 4000]
        /\ req[r1].trace[9].ev = "fallback"
        /\ req[r2].op = "image" /\ req[r2].pc = "done"
        /\ Len(req[r2].trace) = 6
        /\ req[r2].trace[3] = [ev |-> "wait", attempt |-> 1, ms |-> 2000]
        /\ LastEv(req[r2]) = "fallback"

RetriedThenFallback(rec) ==
    IF rec.attempt < 3 THEN rec.pc = "sleeping"
    ELSE /\ rec.pc = "done"
         /\ LastEv(rec) = "fallback"
         /\ rec.result = getFallbackPrompt(rec.input)

\* C5 as stated: a thrown error, malformed JSON and a well-formed response
\* without the prompt field are all retried until 3 attempts have been made
C5_Original ==
    \A r \in Requests :
        (req[r].op = "prompt"
            /\ (ThrowsInTry(req[r].outcome) \/ ParsesWithoutPrompt(req[r].outcome)))
        => RetriedThenFallback(req[r])

\* C5, amended: a thrown error, a response text that is no JSON and one that
\* parses to null are treated alike, retried until 3 attempts have been made
\* and only then answered with the fallback prompt; a response whose text is
\* absent or parses to a value without a non-empty prompt is not retried: that
\* attempt returns the fallback prompt at once
C5_RetryOnlyWhatThrows ==
    \A r \in Requests :
        req[r].op = "prompt" =>
            LET rec == req[r]
            IN  /\ ThrowsInTry(rec.outcome) => RetriedThenFallback(rec)
                /\ ParsesWithoutPrompt(rec.outcome) =>
                       /\ rec.pc = "done"
                       /\ LastEv(rec) = "inlineFallback"
                       /\ rec.result = getFallbackPrompt(rec.input)
                       /\ CountEv(rec, "remoteCall") = rec.attempt
                /\ (rec.pc = "done" /\ LastEv(rec) = "fallback") =>
                       CountEv(rec, "remoteCall") = 3

C5_Witness ==
    \E r1, r2 \in Requests :
        /\ req[r1].op = "prompt" /\ req[r1].pc = "done"
        /\ ParsesWithoutPrompt(req[r1].outcome)
        /\ req[r1].outcome.text.doc = "object"
        /\ req[r1].attempt = 2
        /\ req[r2].op = "prompt" /\ req[r2].pc = "done"
        /\ req[r2].outcome.kind = "response"
        /\ req[r2].outcome.text.doc = "malformed"
        /\ req[r2].attempt = 3

\* C6: a resource error while persisting a remote image (mkdirSync or
\* writeFileSync throwing) leaves generateMandalaImage by an exception: no
\* retry and no fallback artifact follows it
C6_PersistErrorPropagates ==
    \A r \in Requests :
        (req[r].op = "image" /\ req[r].outcome.kind \in {"mkdirFailed", "writeFailed"})
        => req[r].pc = "raised"

\* C7: the artifact of every request that returned a remote image names a
\* file that holds the image bytes of that same request
C7_ArtifactNamesOwnImage ==
    \A r \in Requests :
        (req[r].op = "image" /\ req[r].pc = "done" /\ req[r].outcome.kind = "image")
        => /\ req[r].result.imageUrl = <<"/attached_assets/", Filename(req[r].timestamp)>>
           /\ files[req[r].timestamp].exists
           /\ files[req[r].timestamp].data.req = r

\* the decimal digits of a biometric value (0..100)
RefDigits(n) ==
    LET d(k) == FromCharCode(48 + k)
    IN  IF n >= 100 THEN <<d(n \div 100), d((n \div 10) % 10), d(n % 10)>>
        ELSE IF n >= 10 THEN <<d(n \div 10), d(n % 10)>>
        ELSE <<d(n)>>

\* the code units the reference hash runs over
RefInput(text, brainwaveData) ==
    IF brainwaveData.present
        THEN text \o RefDigits(brainwaveData.attention)
                  \o RefDigits(brainwaveData.meditation)
                  \o RefDigits(brainwaveData.signalQuality)
        ELSE text

\* h = (h*31 + charCode) truncated to 32-bit signed, over the units from i on
RECURSIVE RefHash(_, _, _)
RefHash(units, i, h) ==
    IF i > Len(units) THEN h
    ELSE LET h1 == ToInt32(Wide(h.hi * 31, h.lo * 31 + CharCodeAt(units[i])))
         IN  IF h1.lo >= 0 THEN RefHash(units, i + 1, h1) ELSE h1

RefSeed(text, brainwaveData) ==
    LET h == RefHash(RefInput(text, brainwaveData), 1, WZero)
    IN  IF h.hi < 0 THEN WSub(WZero, h) ELSE h

\* C8: every seed createSeedFromInput returns equals the reference hash of
\* its input (h from 0, h = (h*31 + charCode) truncated to 32-bit signed over
\* the text followed by the digits of attention, meditation and
\* signalQuality, then abs(h)); it lies in 0..2^31; repeated calls on the
\* same input return the same seed; the empty text without biometrics gives 0
C8_SeedIsReferenceHash ==
    "seeds" \in DOMAIN seedCall =>
        \A k \in DOMAIN seedCall.seeds :
            LET seed == seedCall.seeds[k]
            IN  /\ seed = RefSeed(seedCall.prompt, seedCall.brainwaveData)
                /\ seed.hi >= 0
                /\ seed.lo \in 0..65535
                /\ WLeq(seed, TwoTo31)
                /\ seed = seedCall.seeds[1]
                /\ (Len(seedCall.prompt) = 0 /\ ~seedCall.brainwaveData.present) =>
                       seed = WZero

C8_Witness ==
    /\ "seeds" \in DOMAIN seedCall
    /\ seedCall.prompt = ExampleMinHash
    /\ ~seedCall.brainwaveData.present
    /\ Len(seedCall.seeds) = 2
    /\ seedCall.seeds[1] = [hi |-> 32768, lo |-> 0]
    /\ seedCall.seeds[2] = [hi |-> 32768, lo |-> 0]

\* a seed in 0..2^31 reduced modulo 233280
RefResidue(seed) == ((((seed.hi * 16) % 233280) * 4096) + seed.lo) % 233280

\* (previous*9301 + 49297) mod 233280 for previous in 0..233279
RefNextState(previous) == (((previous * 93) % 233280) * 100 + previous + 49297) % 233280

\* the state after k draws from a generator made with seed
RECURSIVE RefState(_, _)
RefState(seed, k) ==
    IF k = 0 THEN RefResidue(seed) ELSE RefNextState(RefState(seed, k - 1))

\* C9: for the seeds createSeedFromInput can return, after every draw the
\* generator's state is in 0..233279, the k-th draw is state_k/233280 with
\* state_k = (state_(k-1)*9301 + 49297) mod 233280 and lies in [0,1), and two
\* generators made from the same seed agree on every draw both have made
C9_PrngRecurrenceAndRange ==
    "closure" \in DOMAIN gen =>
        /\ \A g \in DOMAIN gen.closure :
               LET c == gen.closure[g]
               IN  /\ \A k \in DOMAIN c.draws :
                          /\ c.draws[k].den = 233280
                          /\ c.draws[k].num = RefState(gen.seed, k)
                          /\ 0 <= c.draws[k].num
                          /\ c.draws[k].num < c.draws[k].den
                   /\ Len(c.draws) > 0 =>
                          /\ WToInt(c.currentSeed) = c.draws[Len(c.draws)].num
                          /\ WToInt(c.currentSeed) \in 0..233279
        /\ \A g1, g2 \in DOMAIN gen.closure :
               \A k \in DOMAIN gen.closure[g1].draws \cap DOMAIN gen.closure[g2].draws :
                   gen.closure[g1].draws[k] = gen.closure[g2].draws[k]

C9_Witness ==
    /\ "closure" \in DOMAIN gen
    /\ gen.seed = [hi |-> 32768, lo |-> 0]
    /\ \A g \in DOMAIN gen.closure : Len(gen.closure[g].draws) = MaxDraws
    /\ gen.closure[1].draws[1].num = 197265
    /\ gen.closure[2].draws[2].num = 63862

\* C10: determineMandalaStyle answers by the first rule that matches the
\* lower-cased prompt: dot or aboriginal gives dotpainting; otherwise
\* geometric or sacred gives sacred; otherwise flower or petal gives floral;
\* otherwise geometric; the result is one of the four tags and
\* "a sacred dot painting" gives dotpainting
C10_StyleFirstMatch ==
    ("style" \in DOMAIN styleCall /\ styleCall.style # "undefined") =>
        LET lower == ToLowerCase(styleCall.prompt)
            dotRule == Includes(lower, <<"d", "o", "t">>)
                       \/ Includes(lower, <<"a", "b", "o", "r", "i", "g", "i", "n", "a", "l">>)
            sacredRule == Includes(lower, <<"g", "e", "o", "m", "e", "t", "r", "i", "c">>)
                          \/ Includes(lower, <<"s", "a", "c", "r", "e", "d">>)
            floralRule == Includes(lower, <<"f", "l", "o", "w", "e", "r">>)
                          \/ Includes(lower, <<"p", "e", "t", "a", "l">>)
        IN  /\ styleCall.style \in {"dotpainting", "sacred", "floral", "geometric"}
            /\ dotRule => styleCall.style = "dotpainting"
            /\ (~dotRule /\ sacredRule) => styleCall.style = "sacred"
            /\ (~dotRule /\ ~sacredRule /\ floralRule) => styleCall.style = "floral"
            /\ (~dotRule /\ ~sacredRule /\ ~floralRule) => styleCall.style = "geometric"
            /\ styleCall.prompt = ExampleSacredDot => styleCall.style = "dotpainting"

C10_Witness ==
    /\ "style" \in DOMAIN styleCall
    /\ styleCall.prompt = ExampleSacredDot
    /\ styleCall.style = "dotpainting"

\* the maximal runs of word characters of s that end at or before position n
RECURSIVE WordRuns(_, _, _)
WordRuns(s, n, run) ==
    IF n > Len(s) THEN (IF Len(run) > 0 THEN {run} ELSE {})
    ELSE IF IsWordChar(s[n]) THEN WordRuns(s, n + 1, Append(run, s[n]))
    ELSE (IF Len(run) > 0 THEN {run} ELSE {}) \cup WordRuns(s, n + 1, <<>>)

\* some alternative is a whole word of the lower-cased transcript
HasWholeWord(words, transcript) ==
    \E a \in 1..Len(words) : words[a] \in WordRuns(ToLowerCase(transcript), 1, <<>>)

\* C11: extractThemesFromVoice returns for every transcript, and each of the
\* five flags is true iff one of its alternatives is a whole word of the
\* lower-cased text; the empty and the absent text give five false flags, and
\* "I feel so much love and peace" gives love and peace only
C11_ThemesByWholeWord ==
    ("returned" \in DOMAIN themeCall /\ themeCall.returned) =>
        LET t == themeCall.voiceTranscript
            th == themeCall.themes
        IN  /\ DOMAIN th = {"peace", "love", "strength", "growth", "gratitude"}
            /\ (t = <<"undefined">> \/ Len(t) = 0) =>
                   \A f \in DOMAIN th : th[f] = FALSE
            /\ t # <<"undefined">> =>
                   /\ th.peace = HasWholeWord(PeaceWords, t)
                   /\ th.love = HasWholeWord(LoveWords, t)
                   /\ th.strength = HasWholeWord(StrengthWords, t)
                   /\ th.growth = HasWholeWord(GrowthWords, t)
                   /\ th.gratitude = HasWholeWord(GratitudeWords, t)
            /\ t = ExampleLovePeace =>
                   th = [peace |-> TRUE, love |-> TRUE, strength |-> FALSE,
                         growth |-> FALSE, gratitude |-> FALSE]

C11_Witness ==
    /\ "returned" \in DOMAIN themeCall
    /\ themeCall.returned
    /\ themeCall.voiceTranscript = ExampleLovePeace
    /\ themeCall.themes.love /\ themeCall.themes.peace
    /\ ~themeCall.themes.strength /\ ~themeCall.themes.growth /\ ~themeCall.themes.gratitude

\* the band of a value under strict thresholds
Band(v) == IF v > 70 THEN "high" ELSE IF v < 30 THEN "low" ELSE "balanced"

ExpectedComplexity ==
    [high |-> "highly intricate and precisely detailed with sharp geometric precision",
     low |-> "flowing and organic with soft, dreamy details",
     balanced |-> "balanced complexity with harmonious details"]

ExpectedAttentionModifier ==
    [high |-> "focused energy patterns with crystalline clarity, ",
     low |-> "gentle, flowing energy with soft focus, ",
     balanced |-> "centered and stable energy patterns, "]

ExpectedColorIntensity ==
    [high |-> "deep, calming colors with gentle gradients and peaceful luminescence",
     low |-> "vibrant, dynamic colors with energetic contrasts and bright highlights",
     balanced |-> "balanced color palette with moderate intensity and natural harmony"]

ExpectedMeditationModifier ==
    [high |-> "serene and tranquil atmosphere with smooth color transitions, ",
     low |-> "active and energetic atmosphere with bold color contrasts, ",
     balanced |-> "harmonious and balanced energy, "]

\* the attention and meditation sentences of getFallbackPrompt
ExpectedAttentionText ==
    [high |->
        "Ultra-precise geometric dot patterns with crystalline clarity, sharp angular formations, and highly detailed symmetrical structures. Each dot perfectly placed for maximum focus and concentration energy. ",
     low |->
        "Soft, organic dot patterns with flowing transitions, gentle curves, and dreamy ethereal formations. Dots create flowing energy like water or clouds. ",
     balanced |->
        "Balanced dot patterns with harmonious geometric structures, moderate complexity, and stable radial symmetry. Perfect equilibrium between order and flow. "]

ExpectedMeditationText ==
    [high |->
        "Deep, peaceful dot gradients creating waves of tranquility, with gentle spirals and calming circular patterns that radiate serene energy from the center outward. ",
     low |->
        "Dynamic, energetic dot work with vibrant spiral patterns, active radiating lines, and pulsing geometric forms that express vitality and movement. ",
     balanced |->
        "Centered, grounded dot patterns with stable circular formations and balanced energy distribution throughout the design. "]

\* C12: on both paths a value above 70 selects the high descriptor, a value
\* below 30 the low one and every value in 30..70, 30 and 70 included, the
\* balanced one; in generateMandalaImage a signalQuality below 50 appends the
\* ethereal modifier after the attention and meditation modifiers, which it
\* leaves as they are, and a signalQuality of 50 or more adds nothing
C12_StrictThresholds ==
    ("returned" \in DOMAIN descCall /\ descCall.returned) =>
        LET b == descCall.brainwaveData
            a == Band(b.attention)
            m == Band(b.meditation)
        IN  /\ (b.attention \in 30..70) = (a = "balanced")
            /\ (b.meditation \in 30..70) = (m = "balanced")
            /\ descCall.complexityLevel = ExpectedComplexity[a]
            /\ descCall.colorIntensity = ExpectedColorIntensity[m]
            /\ descCall.styleModifiers =
                   ExpectedAttentionModifier[a] \o ExpectedMeditationModifier[m]
                   \o (IF b.signalQuality < 50
                          THEN "with subtle ethereal effects and mystical atmosphere, "
                          ELSE "")
            /\ descCall.attentionText = ExpectedAttentionText[a]
            /\ descCall.meditationText = ExpectedMeditationText[m]

C12_Witness ==
    /\ "returned" \in DOMAIN descCall
    /\ descCall.returned
    /\ descCall.brainwaveData.attention = 70
    /\ descCall.brainwaveData.meditation = 30
    /\ descCall.brainwaveData.signalQuality = 50
    /\ descCall.complexityLevel = "balanced complexity with harmonious details"
    /\ descCall.colorIntensity
           = "balanced color palette with moderate intensity and natural harmony"
    /\ descCall.styleModifiers
           = "centered and stable energy patterns, harmonious and balanced energy, "
    /\ descCall.attentionText = ExpectedAttentionText.balanced
    /\ descCall.meditationText = ExpectedMeditationText.balanced

\* the runs of createSVGMandala that have returned
Returned == { i \in Runs : "returned" \in DOMAIN svgRun[i] /\ svgRun[i].returned }

EquallySpaced(motifs, n, step) ==
    /\ DOMAIN motifs = 1..n
    /\ n * step = 360
    /\ \A k \in 1..n : motifs[k].rotate.num = step * (k - 1) * motifs[k].rotate.den

\* C14: in every createSVGMandala run, whatever the seed, palette and style,
\* each of the two generateOuterRing calls emits exactly 12 motifs at angles
\* 30*i, each of the two generateDetailedPetals calls emits exactly 8 motifs
\* at angles 45*i, and generateDotPatterns emits three rings of radii 20, 35
\* and 50 with floor(radius/2) dots each (10, 17, 25), the k-th dot of a ring
\* at k times 360/dotCount degrees
C14_ComposerStructure ==
    \A i \in Returned :
        LET mk == svgRun[i].markup
            dots == mk.layers[6]
        IN  /\ EquallySpaced(mk.layers[1], 12, 30)
            /\ EquallySpaced(mk.enhancement[1], 12, 30)
            /\ EquallySpaced(mk.layers[4], 8, 45)
            /\ EquallySpaced(mk.enhancement[2], 8, 45)
            /\ DOMAIN dots = 1..3
            /\ \A n \in 1..3 :
                   LET radius == <<20, 35, 50>>[n]
                       dotCount == <<10, 17, 25>>[n]
                   IN  /\ DOMAIN dots[n] = 1..dotCount
                       /\ 2 * dotCount <= radius
                       /\ radius < 2 * (dotCount + 1)
                       /\ \A k \in 1..dotCount :
                              /\ dots[n][k].radius = radius
                              /\ dots[n][k].angle.num * dotCount
                                     = 360 * (k - 1) * dots[n][k].angle.den

C14_Witness ==
    /\ Returned = {1, 2}
    /\ svgRun[1].seed # svgRun[2].seed
    /\ svgRun[1].markup.overlay # svgRun[2].markup.overlay
    /\ determineMandalaStyle(svgRun[1].input.prompt) = "dotpainting"
    /\ determineMandalaStyle(svgRun[2].input.prompt) = "floral"
    /\ \A i \in Runs : /\ Len(svgRun[i].markup.layers[1]) = 12
                       /\ Len(svgRun[i].markup.layers[4]) = 8
                       /\ Len(svgRun[i].markup.layers[6][2]) = 17

\* whether the lower-cased prompt selects the vibrant palette
SelectsVibrant(prompt) ==
    \/ Includes(ToLowerCase(prompt), <<"v", "i", "b", "r", "a", "n", "t">>)
    \/ Includes(ToLowerCase(prompt), <<"b", "r", "i", "g", "h", "t">>)

=============================================================================
